---- MODULE Spec2Model ----
(***************************************************************************)
(* CambriaStore (src/src/index.ts): an in-memory store of a lens graph, a  *)
(* name -> head schema map and patch-log documents, together with the      *)
(* parts of cambria and fast-json-patch the store calls.                   *)
(*                                                                         *)
(* Strings that are hashed are sequences of tokens.  A JSON scalar is the  *)
(* string of its JSON text ("'hello'", "''", "true", "false"); "{}" is the *)
(* empty object.  A typed document is a function from property names to    *)
(* scalars.  Every operation that can throw returns a record with an ok    *)
(* flag.                                                                   *)
(***************************************************************************)
EXTENDS Integers, Sequences, FiniteSets, TLC

VARIABLES graph, headSchemas, doc, last, peer, reads

vars == <<graph, headSchemas, doc, last, peer, reads>>

\* ------------------------------------------------------------------ bounds

\* Most nodes a lens graph holds in the model, the sentinel 'mu' included.
MaxNodes == 5

\* Most entries a document's patch log holds in the model.
MaxLog == 2

\* ----------------------------------------------------------------- helpers

RECURSIVE SeqRev(_)
SeqRev(s) == IF s = <<>> THEN <<>> ELSE Append(SeqRev(Tail(s)), Head(s))

RECURSIVE Flatten(_)
Flatten(ss) == IF ss = <<>> THEN <<>> ELSE Head(ss) \o Flatten(Tail(ss))

Range(s) == {s[i] : i \in 1..Len(s)}

IsPrefix(s, t) == Len(s) <= Len(t) /\ SubSeq(t, 1, Len(s)) = s

\* The empty object {}.
EmptyObj == [k \in {} |-> ""]

\* --------------------------------------------------------- schema identity

\* The sentinel root of cambria's lens graph.
Mu == <<"mu">>

\* createHash('md5').update(a).update(b).digest('hex'): the digest of the
\* concatenated input, as a string.  The digest is symbolic: the input between
\* two delimiters, so that it is injective on its input.
MD5hex(bytes) == <<"#">> \o bytes \o <<";">>

\* ------------------------------------------------------------------ lenses

\* cambria's helpers build a lens op as {op, ...fields}; keys is the order in
\* which the object's keys were inserted.
addProperty(n, t) ==
    [op |-> "add", name |-> n, arg |-> t, keys |-> <<"op", "name", "type">>]

renameProperty(s, d) ==
    [op |-> "rename", name |-> s, arg |-> d,
     keys |-> <<"op", "source", "destination">>]

convertValue(n, dir) ==
    [op |-> "convert", name |-> n, arg |-> dir,
     keys |-> <<"op", "name", "mapping">>]

\* The same lens op written by hand with its keys in another order.
KeysReordered(o) == [o EXCEPT !.keys = SeqRev(o.keys)]

\* JSON.stringify of one lens op of the tests (quotes left out): the keys and
\* their values in the order the keys were inserted.
JsonText(o) ==
    IF o.keys[1] = "op"
    THEN CASE o.op = "add" /\ o.name = "title" -> "{op:add,name:title,type:string}"
           [] o.op = "add" /\ o.name = "summary" -> "{op:add,name:summary,type:string}"
           [] o.op = "add" /\ o.name = "complete" ->
                "{op:add,name:complete,type:boolean}"
           [] o.op = "add" /\ o.name = "branch1" -> "{op:add,name:branch1,type:string}"
           [] o.op = "add" /\ o.name = "branch2" -> "{op:add,name:branch2,type:string}"
           [] o.op = "rename" /\ o.name = "summary" ->
                "{op:rename,source:summary,destination:description}"
           [] o.op = "rename" /\ o.name = "complete" ->
                "{op:rename,source:complete,destination:status}"
           [] OTHER -> "{op:convert,name:status,mapping:[..],sourceType:boolean,..}"
    ELSE CASE o.op = "add" /\ o.name = "complete" ->
                "{type:boolean,name:complete,op:add}"
           [] OTHER -> "{destination:description,source:summary,op:rename}"

\* JSON.stringify(lens): the array of the ops' texts.
JSONstringify(lens) ==
    <<"[">> \o [i \in 1..Len(lens) |-> JsonText(lens[i])] \o <<"]">>

\* What a lens does, whatever the order of its keys.
LensContent(lens) == [i \in 1..Len(lens) |-> [lens[i] EXCEPT !.keys = <<>>]]

FlipDir(dir) == IF dir = "boolean>string" THEN "string>boolean" ELSE "boolean>string"

ReverseLensOp(o) ==
    CASE o.op = "add" -> [o EXCEPT !.op = "remove"]
      [] o.op = "remove" -> [o EXCEPT !.op = "add"]
      [] o.op = "rename" -> [o EXCEPT !.name = o.arg, !.arg = o.name]
      [] OTHER -> [o EXCEPT !.arg = FlipDir(o.arg)]

\* cambria reverseLens: the reversed ops, last first.
reverseLens(lens) == SeqRev([i \in 1..Len(lens) |-> ReverseLensOp(lens[i])])

\* ----------------------------------------------------------------- schemas

defaultValuesByType(t) == IF t = "boolean" THEN "false" ELSE "''"

PropDef(t) == [type |-> t, default |-> defaultValuesByType(t)]

\* cambria emptySchema: an object schema with no properties.
emptySchema == [k \in {} |-> PropDef("string")]

Without(f, k) == [x \in DOMAIN f \ {k} |-> f[x]]

DestType(dir) == IF dir = "boolean>string" THEN "string" ELSE "boolean"

\* cambria updateSchema, one op: renaming or removing a property the schema
\* does not have throws.
UpdateSchemaOp(r, o) ==
    IF ~r.ok THEN r
    ELSE CASE o.op = "add" ->
                [ok |-> TRUE, s |-> (o.name :> PropDef(o.arg)) @@ r.s]
           [] o.op = "remove" ->
                IF o.name \in DOMAIN r.s
                THEN [ok |-> TRUE, s |-> Without(r.s, o.name)]
                ELSE [ok |-> FALSE, s |-> emptySchema]
           [] o.op = "rename" ->
                IF o.name \in DOMAIN r.s
                THEN [ok |-> TRUE,
                      s |-> (o.arg :> r.s[o.name]) @@ Without(r.s, o.name)]
                ELSE [ok |-> FALSE, s |-> emptySchema]
           [] OTHER ->
                [ok |-> TRUE, s |-> (o.name :> PropDef(DestType(o.arg))) @@ r.s]

RECURSIVE UpdateSchemaFrom(_, _)
UpdateSchemaFrom(r, lens) ==
    IF lens = <<>> THEN r
    ELSE UpdateSchemaFrom(UpdateSchemaOp(r, Head(lens)), Tail(lens))

\* cambria updateSchema(schema, lens).
updateSchema(schema, lens) == UpdateSchemaFrom([ok |-> TRUE, s |-> schema], lens)

\* ----------------------------------------------------------------- patches

PatchOp(o, p, v) == [op |-> o, path |-> p, value |-> v]

\* The property order of the objects the model builds (Object.keys order).
PropOrder ==
    <<"title", "summary", "description", "complete", "status", "branch1",
      "branch2">>

\* A convertValue mapping applied to String(value); no entry: not ok.
ConvertMapping(dir, v) ==
    IF dir = "boolean>string"
    THEN CASE v = "false" -> [ok |-> TRUE, value |-> "'todo'"]
           [] v = "true" -> [ok |-> TRUE, value |-> "'done'"]
           [] OTHER -> [ok |-> FALSE, value |-> v]
    ELSE CASE v \in {"'todo'", "'inProgress'"} -> [ok |-> TRUE, value |-> "false"]
           [] v \in {"'done'", "'default'"} -> [ok |-> TRUE, value |-> "true"]
           [] OTHER -> [ok |-> FALSE, value |-> v]

\* cambria runLensOp on a patch op that is still there (r.ops holds it): a
\* rename moves add/replace ops of its source, a convert maps their value (and
\* throws on a value its mapping lacks), a remove drops the ops of its property.
RunLensOp(o, r) ==
    IF ~r.ok \/ r.ops = <<>> THEN r
    ELSE LET p == r.ops[1] IN
         CASE o.op = "rename" /\ p.path = o.name ->
                [r EXCEPT !.ops = <<[p EXCEPT !.path = o.arg]>>]
           [] o.op = "convert" /\ p.path = o.name ->
                LET c == ConvertMapping(o.arg, p.value) IN
                IF c.ok THEN [r EXCEPT !.ops = <<[p EXCEPT !.value = c.value]>>]
                ELSE [ok |-> FALSE, ops |-> <<>>]
           [] o.op = "remove" /\ p.path = o.name ->
                [r EXCEPT !.ops = <<>>]
           [] OTHER -> r

RECURSIVE ApplyLensToPatchOpFrom(_, _)
ApplyLensToPatchOpFrom(lens, r) ==
    IF lens = <<>> THEN r
    ELSE ApplyLensToPatchOpFrom(Tail(lens), RunLensOp(Head(lens), r))

\* cambria applyLensToPatchOp: one patch op through every op of the lens.
applyLensToPatchOp(lens, p) ==
    ApplyLensToPatchOpFrom(lens, [ok |-> TRUE, ops |-> <<p>>])

\* The defaults of a schema's properties, as add ops, in property order.
DefaultOps(schema) ==
    LET present == SelectSeq(PropOrder, LAMBDA k : k \in DOMAIN schema)
    IN [i \in 1..Len(present) |->
          PatchOp("add", present[i], schema[present[i]].default)]

\* cambria addDefaultValues: an op that makes the empty object at the root is
\* followed by the defaults of the schema's properties.
addDefaultValues(patch, schema) ==
    Flatten([i \in 1..Len(patch) |->
        IF patch[i].op \in {"add", "replace"} /\ patch[i].value = "{}"
           /\ patch[i].path = ""
        THEN <<patch[i]>> \o DefaultOps(schema)
        ELSE <<patch[i]>>])

\* cambria applyLensToPatch(lens, patch, patchSchema): every op through the
\* lens, then the defaults of the schema the lens leads to.
applyLensToPatch(lens, patch, patchSchema) ==
    LET each == [i \in 1..Len(patch) |-> applyLensToPatchOp(lens, patch[i])]
        readerSchema == updateSchema(patchSchema, lens)
    IN IF (\E i \in 1..Len(patch) : ~each[i].ok) \/ ~readerSchema.ok
       THEN [ok |-> FALSE, patch |-> <<>>]
       ELSE [ok |-> TRUE,
             patch |-> addDefaultValues(
                 Flatten([i \in 1..Len(patch) |-> each[i].ops]), readerSchema.s)]

\* fast-json-patch applyOperation with validation: an add at the root replaces
\* the document, an add sets the property, a replace of a property the
\* document lacks throws.
ApplyOperation(r, p) ==
    IF ~r.ok THEN r
    ELSE CASE p.path = "" -> [ok |-> TRUE, doc |-> EmptyObj]
           [] p.op = "add" -> [ok |-> TRUE, doc |-> (p.path :> p.value) @@ r.doc]
           [] p.path \in DOMAIN r.doc ->
                [ok |-> TRUE, doc |-> (p.path :> p.value) @@ r.doc]
           [] OTHER -> [ok |-> FALSE, doc |-> r.doc]

RECURSIVE ApplyPatchFrom(_, _)
ApplyPatchFrom(r, patch) ==
    IF patch = <<>> THEN r
    ELSE ApplyPatchFrom(ApplyOperation(r, Head(patch)), Tail(patch))

\* fast-json-patch applyPatch(document, patch, true, false).newDocument: a new
\* document, the argument untouched.
applyPatch(document, patch) == ApplyPatchFrom([ok |-> TRUE, doc |-> document], patch)

\* jsonpatch.compare({}, pojo): one add per property of pojo.
CompareWithEmpty(pojo) ==
    LET present == SelectSeq(PropOrder, LAMBDA k : k \in DOMAIN pojo)
    IN [i \in 1..Len(present) |-> PatchOp("add", present[i], pojo[present[i]])]

\* jsonpatch.observe + generate: the difference between the document as it
\* was read and as the callback left it.
Generate(before, after) ==
    LET changed == SelectSeq(PropOrder,
                     LAMBDA k : k \in DOMAIN before /\ k \in DOMAIN after
                                /\ before[k] # after[k])
        added == SelectSeq(PropOrder,
                     LAMBDA k : k \notin DOMAIN before /\ k \in DOMAIN after)
    IN [i \in 1..Len(changed) |-> PatchOp("replace", changed[i], after[changed[i]])]
       \o [i \in 1..Len(added) |-> PatchOp("add", added[i], after[added[i]])]

\* -------------------------------------------------------------- lens graph
\* A graph is its nodes in the order they were set, each node's schema (its
\* label) and its edges in the order they were set, each labelled with a lens.

\* cambria initLensGraph(): the sentinel 'mu', labelled with the empty schema.
initLensGraph == [nodes |-> <<Mu>>, labels |-> <<emptySchema>>, edges |-> <<>>]

HasNode(g, id) == \E i \in 1..Len(g.nodes) : g.nodes[i] = id

HasEdge(g, v, w) == \E i \in 1..Len(g.edges) : g.edges[i].v = v /\ g.edges[i].w = w

EdgeLens(g, v, w) ==
    g.edges[CHOOSE i \in 1..Len(g.edges) : g.edges[i].v = v /\ g.edges[i].w = w].lens

\* cambria lensGraphSchema(graph, id): the node's label.
lensGraphSchema(g, id) == g.labels[CHOOSE i \in 1..Len(g.nodes) : g.nodes[i] = id]

\* graphlib setEdge: a new edge goes last, an edge that exists gets the label.
SetEdge(g, v, w, lens) ==
    IF HasEdge(g, v, w)
    THEN [g EXCEPT !.edges = [i \in 1..Len(g.edges) |->
              IF g.edges[i].v = v /\ g.edges[i].w = w
              THEN [g.edges[i] EXCEPT !.lens = lens] ELSE g.edges[i]]]
    ELSE [g EXCEPT !.edges = Append(g.edges, [v |-> v, w |-> w, lens |-> lens])]

SetNode(g, id, label) ==
    [g EXCEPT !.nodes = Append(g.nodes, id), !.labels = Append(g.labels, label)]

\* cambria registerLens(graph, from, to, lenses): throws on an unknown from,
\* returns the graph as it is when from -> to has a lens already, else adds to
\* (with the schema the lens gives from's schema) when it is new, and sets the
\* edge and its reverse.
registerLens(g, from, to, lenses) ==
    IF ~HasNode(g, from) THEN [ok |-> FALSE, graph |-> g]
    ELSE IF HasEdge(g, from, to) THEN [ok |-> TRUE, graph |-> g]
    ELSE LET toSchema == updateSchema(lensGraphSchema(g, from), lenses)
             withNode == IF HasNode(g, to) THEN g ELSE SetNode(g, to, toSchema.s)
         IN IF ~HasNode(g, to) /\ ~toSchema.ok THEN [ok |-> FALSE, graph |-> g]
            ELSE [ok |-> TRUE,
                  graph |-> SetEdge(SetEdge(withNode, from, to, lenses),
                                    to, from, reverseLens(lenses))]

\* The nodes v has an edge to, in the order of the edges.
OutNeighbours(g, v) ==
    LET out == SelectSeq(g.edges, LAMBDA e : e.v = v)
    IN [i \in 1..Len(out) |-> out[i].w]

\* graphlib alg.dijkstra(graph, source) with unit weights: each node reached
\* gets as predecessor the node it was first reached from; nodes are taken in
\* the order they were reached.
RECURSIVE DijkstraFrom(_, _, _, _)
DijkstraFrom(g, queue, i, pred) ==
    IF i > Len(queue) THEN pred
    ELSE LET v == queue[i]
             fresh == SelectSeq(OutNeighbours(g, v), LAMBDA w : w \notin DOMAIN pred)
         IN DijkstraFrom(g, queue \o fresh, i + 1,
                         [w \in Range(fresh) |-> v] @@ pred)

Dijkstra(g, source) == DijkstraFrom(g, <<source>>, 1, (source :> source))

\* The lenses along the predecessors from v to the source `to`.
RECURSIVE LensesAlong(_, _, _, _)
LensesAlong(g, pred, v, to) ==
    IF v = to THEN [ok |-> TRUE, lens |-> <<>>]
    ELSE IF ~HasEdge(g, v, pred[v]) THEN [ok |-> FALSE, lens |-> <<>>]
    ELSE LET rest == LensesAlong(g, pred, pred[v], to)
         IN [ok |-> rest.ok, lens |-> EdgeLens(g, v, pred[v]) \o rest.lens]

\* cambria lensFromTo(graph, from, to): throws when a schema is not in the
\* graph or no path joins them; else the lenses of a shortest path.
lensFromTo(g, from, to) ==
    IF ~HasNode(g, from) \/ ~HasNode(g, to) THEN [ok |-> FALSE, lens |-> <<>>]
    ELSE LET pred == Dijkstra(g, to)
         IN IF from \notin DOMAIN pred THEN [ok |-> FALSE, lens |-> <<>>]
            ELSE LensesAlong(g, pred, from, to)

\* ----------------------------------------------------------- CambriaStore

\* A RawDoc with an empty log: { patches: [] }.
EmptyLogDoc == [hasPatches |-> TRUE, patches |-> <<>>]

\* A document with no patches field (not a RawDoc).
MalformedDoc == [hasPatches |-> FALSE, patches |-> <<>>]

\* initDoc putting readAs's initPatch into the log ahead of the entry.
initDocSeeded(pojo, schemaId) ==
    [hasPatches |-> TRUE,
     patches |-> <<[schemaId |-> schemaId, patch |-> <<[op |-> "add", path |-> "", value |-> "{}"]>>],
                   [schemaId |-> schemaId, patch |-> CompareWithEmpty(pojo)]>>]

\* initDoc(pojo, schemaId): one entry, the patch from {} to pojo.
initDoc(pojo, schemaId) ==
    [hasPatches |-> TRUE,
     patches |-> <<[schemaId |-> schemaId, patch |-> CompareWithEmpty(pojo)]>>]

\* An initPatch that adds nothing.
InitPatchEmpty(readerSchemaId) == [schemaId |-> readerSchemaId, patch |-> <<>>]

\* readAs's initPatch: an empty object added at the root, in the reader's schema.
InitPatch(readerSchemaId) ==
    [schemaId |-> readerSchemaId, patch |-> <<PatchOp("add", "", "{}")>>]

\* ReadStep applying the entry's patch as written, whatever schema wrote it.
ReadStepNoLens(g, readerSchemaId, acc, entry) ==
    IF ~acc.ok THEN acc
    ELSE IF ~lensFromTo(g, entry.schemaId, readerSchemaId).ok
         THEN [ok |-> FALSE, doc |-> acc.doc]
         ELSE applyPatch(acc.doc, entry.patch)

\* ReadStep folding only the entries the reader's own schema wrote.
ReadStepSkipsForeign(g, readerSchemaId, acc, entry) ==
    IF ~acc.ok THEN acc
    ELSE IF ~lensFromTo(g, entry.schemaId, readerSchemaId).ok
         THEN [ok |-> FALSE, doc |-> acc.doc]
         ELSE IF entry.schemaId # readerSchemaId THEN acc
              ELSE applyPatch(acc.doc, entry.patch)

\* Variant: every entry converted to the sentinel's schema and from there to
\* the reader's, whatever shorter path the graph has.
ReadStepOverRoot(g, readerSchemaId, acc, entry) ==
    IF ~acc.ok THEN acc
    ELSE LET down == lensFromTo(g, entry.schemaId, Mu)
             up == lensFromTo(g, Mu, readerSchemaId) IN
         IF ~down.ok \/ ~up.ok THEN [ok |-> FALSE, doc |-> acc.doc]
         ELSE LET convertedPatch ==
                      applyLensToPatch(down.lens \o up.lens, entry.patch,
                                       lensGraphSchema(g, entry.schemaId))
              IN IF ~convertedPatch.ok THEN [ok |-> FALSE, doc |-> acc.doc]
                 ELSE applyPatch(acc.doc, convertedPatch.patch)

\* One step of readAs's reduce: the entry's patch converted from its writer's
\* schema to the reader's and applied to a copy of the accumulator.
ReadStep(g, readerSchemaId, acc, entry) ==
    IF ~acc.ok THEN acc
    ELSE LET lens == lensFromTo(g, entry.schemaId, readerSchemaId) IN
         IF ~lens.ok THEN [ok |-> FALSE, doc |-> acc.doc]
         ELSE LET convertedPatch ==
                      applyLensToPatch(lens.lens, entry.patch,
                                       lensGraphSchema(g, entry.schemaId))
              IN IF ~convertedPatch.ok THEN [ok |-> FALSE, doc |-> acc.doc]
                 ELSE applyPatch(acc.doc, convertedPatch.patch)

\* Variant: a fold from the end of the list to its start (reduceRight).
RECURSIVE ReduceRight(_, _, _, _)
ReduceRight(g, readerSchemaId, acc, patches) ==
    IF patches = <<>> THEN acc
    ELSE ReduceRight(g, readerSchemaId,
                     ReadStep(g, readerSchemaId, acc, patches[Len(patches)]),
                     SubSeq(patches, 1, Len(patches) - 1))

RECURSIVE Reduce(_, _, _, _)
Reduce(g, readerSchemaId, acc, patches) ==
    IF patches = <<>> THEN acc
    ELSE Reduce(g, readerSchemaId, ReadStep(g, readerSchemaId, acc, Head(patches)),
                Tail(patches))

\* readAs folding the log alone, without initPatch.
readAsNoInitPatch(g, d, readerSchemaId) ==
    IF ~d.hasPatches THEN [ok |-> FALSE, doc |-> EmptyObj]
    ELSE Reduce(g, readerSchemaId, [ok |-> TRUE, doc |-> EmptyObj], d.patches)

\* Variant: reads a document without patches as one with an empty log.
readAsLenient(g, d, readerSchemaId) ==
    Reduce(g, readerSchemaId, [ok |-> TRUE, doc |-> EmptyObj],
           <<InitPatch(readerSchemaId)>> \o d.patches)

\* Variant: an empty log read as {} at once, before initPatch is folded.
readAsEmptyLogFirst(g, d, readerSchemaId) ==
    IF ~d.hasPatches THEN [ok |-> FALSE, doc |-> EmptyObj]
    ELSE IF d.patches = <<>> THEN [ok |-> TRUE, doc |-> EmptyObj]
    ELSE Reduce(g, readerSchemaId, [ok |-> TRUE, doc |-> EmptyObj],
                <<InitPatch(readerSchemaId)>> \o d.patches)

\* readAs(doc, readerSchemaId): throws on a document without patches, else
\* folds initPatch and the log from {}.
readAs(g, d, readerSchemaId) ==
    IF ~d.hasPatches THEN [ok |-> FALSE, doc |-> EmptyObj]
    ELSE Reduce(g, readerSchemaId, [ok |-> TRUE, doc |-> EmptyObj],
                <<InitPatch(readerSchemaId)>> \o d.patches)

\* Variant: the CambriaLocalStorage read with initPatch put in front.
readAsLocalStorageSeeded(g, d, readerSchemaId) ==
    IF ~d.hasPatches THEN [ok |-> FALSE, doc |-> EmptyObj]
    ELSE Reduce(g, readerSchemaId, [ok |-> TRUE, doc |-> EmptyObj],
                <<InitPatch(readerSchemaId)>> \o d.patches)

\* CambriaLocalStorage.readAs(doc, readerSchemaId): throws on a document
\* without patches, else folds doc.patches from {}.
readAsLocalStorage(g, d, readerSchemaId) ==
    IF ~d.hasPatches THEN [ok |-> FALSE, doc |-> EmptyObj]
    ELSE Reduce(g, readerSchemaId, [ok |-> TRUE, doc |-> EmptyObj], d.patches)

\* readAs unshifting initPatch into the document's own array.
readAsLeavesInitPatch(g, heads, d, readerSchemaId) ==
    [graph |-> g, heads |-> heads,
     doc |-> IF d.hasPatches
             THEN [d EXCEPT !.patches = <<InitPatch(readerSchemaId)>> \o @]
             ELSE d]

\* What readAs leaves behind: it assigns to neither the store nor the document
\* (the reduce starts from a fresh array and applyPatch copies the accumulator).
readAsLeaves(g, heads, d, readerSchemaId) == [graph |-> g, heads |-> heads, doc |-> d]

\* A readAs call under way, one step of its reduce at a time: its
\* readerSchemaId, the length of `patches` without initPatch (the spread at
\* line 45 copies the array, the entries stay the document's own), the index
\* of the next entry (0 is initPatch) and the accumulator.
NoRead ==
    [on |-> FALSE, target |-> <<>>, n |-> 0, pos |-> 0,
     acc |-> [ok |-> TRUE, doc |-> EmptyObj]]

\* The calls that may be under way at once.
Readers == {"a", "b"}

\* Variant: a step that patches in place and so writes what it accumulated
\* through to the entry it folds.
foldStepInPlace(g, d, rs, r) ==
    LET me == rs[r]
        entry == IF me.pos = 0 THEN InitPatch(me.target) ELSE d.patches[me.pos]
        acc == ReadStep(g, me.target, me.acc, entry)
    IN [reads |-> [rs EXCEPT ![r].acc = acc, ![r].pos = me.pos + 1],
        doc |-> IF me.pos = 0 \/ ~acc.ok THEN d
                ELSE [d EXCEPT !.patches[me.pos].patch = Generate(EmptyObj, acc.doc)]]

\* One step of the reduce of the call r: the next entry folded into a new
\* accumulator (applyPatch with mutateDocument false); the other calls'
\* accumulators and the document are not assigned.
foldStep(g, d, rs, r) ==
    LET me == rs[r]
        entry == IF me.pos = 0 THEN InitPatch(me.target) ELSE d.patches[me.pos]
    IN [reads |-> [rs EXCEPT ![r].acc = ReadStep(g, me.target, me.acc, entry),
                             ![r].pos = me.pos + 1],
        doc |-> d]

\* A callback: it leaves the document alone, sets one property, or throws.
NoopFn == [kind |-> "noop", prop |-> "", value |-> ""]

ThrowFn == [kind |-> "throw", prop |-> "", value |-> ""]

SetFn(p, v) == [kind |-> "set", prop |-> p, value |-> v]

ApplyCallback(fn, typedDoc) ==
    IF fn.kind = "set" THEN (fn.prop :> fn.value) @@ typedDoc ELSE typedDoc

\* changeTypedDoc pushing the patch that leads from the changed document back
\* to the one it read.
changeTypedDocDiffReversed(g, d, writerSchemaId, fn) ==
    LET typedDoc == readAs(g, d, writerSchemaId) IN
    IF ~typedDoc.ok \/ fn.kind = "throw"
    THEN [ok |-> FALSE, doc |-> d, typedDoc |-> typedDoc.doc]
    ELSE [ok |-> TRUE,
          doc |-> [d EXCEPT !.patches = Append(@,
                     [schemaId |-> writerSchemaId,
                      patch |-> Generate(ApplyCallback(fn, typedDoc.doc),
                                         typedDoc.doc)])],
          typedDoc |-> typedDoc.doc]

\* changeTypedDoc pushing nothing when the callback changed nothing.
changeTypedDocSkipsEmpty(g, d, writerSchemaId, fn) ==
    LET typedDoc == readAs(g, d, writerSchemaId) IN
    IF ~typedDoc.ok \/ fn.kind = "throw"
    THEN [ok |-> FALSE, doc |-> d, typedDoc |-> typedDoc.doc]
    ELSE LET patch == Generate(typedDoc.doc, ApplyCallback(fn, typedDoc.doc)) IN
         [ok |-> TRUE,
          doc |-> IF patch = <<>> THEN d
                  ELSE [d EXCEPT !.patches = Append(@,
                           [schemaId |-> writerSchemaId, patch |-> patch])],
          typedDoc |-> typedDoc.doc]

\* changeTypedDoc pushing what it observed also when the callback threw.
changeTypedDocPushesOnThrow(g, d, writerSchemaId, fn) ==
    LET typedDoc == readAs(g, d, writerSchemaId) IN
    IF ~typedDoc.ok
    THEN [ok |-> FALSE, doc |-> d, typedDoc |-> typedDoc.doc]
    ELSE [ok |-> fn.kind # "throw",
          doc |-> [d EXCEPT !.patches = Append(@,
                     [schemaId |-> writerSchemaId,
                      patch |-> Generate(typedDoc.doc,
                                         ApplyCallback(fn, typedDoc.doc))])],
          typedDoc |-> typedDoc.doc]

\* changeTypedDoc(doc, writerSchemaId, callback): reads the document as the
\* writer, runs the callback on it and pushes the observed patch, tagged with
\* the writer's schema.
changeTypedDoc(g, d, writerSchemaId, fn) ==
    LET typedDoc == readAs(g, d, writerSchemaId) IN
    IF ~typedDoc.ok \/ fn.kind = "throw"
    THEN [ok |-> FALSE, doc |-> d, typedDoc |-> typedDoc.doc]
    ELSE [ok |-> TRUE,
          doc |-> [d EXCEPT !.patches = Append(@,
                     [schemaId |-> writerSchemaId,
                      patch |-> Generate(typedDoc.doc,
                                         ApplyCallback(fn, typedDoc.doc))])],
          typedDoc |-> typedDoc.doc]

\* CambriaLocalStorage.changeTypedDoc(doc, writerSchemaId, callback): as
\* changeTypedDoc, over its own readAs.
changeTypedDocLocalStorage(g, d, writerSchemaId, fn) ==
    LET typedDoc == readAsLocalStorage(g, d, writerSchemaId) IN
    IF ~typedDoc.ok \/ fn.kind = "throw"
    THEN [ok |-> FALSE, doc |-> d, typedDoc |-> typedDoc.doc]
    ELSE [ok |-> TRUE,
          doc |-> [d EXCEPT !.patches = Append(@,
                     [schemaId |-> writerSchemaId,
                      patch |-> Generate(typedDoc.doc,
                                         ApplyCallback(fn, typedDoc.doc))])],
          typedDoc |-> typedDoc.doc]

\* A new schema ID that hashes the lens alone, without the previous ID.
NewSchemaIdLensOnly(schemaId, lens) == MD5hex(JSONstringify(lens))

\* upgradeSchemaById's new schema ID: the hash of the previous ID + the lens.
NewSchemaId(schemaId, lens) == MD5hex(schemaId \o JSONstringify(lens))

\* initializeSchema leaving alone a name that already has a head.
initializeSchemaIfAbsent(g, heads, name) ==
    LET schemaId == MD5hex(name)
        reg == registerLens(g, Mu, schemaId, <<>>)
    IN IF ~reg.ok THEN [ok |-> FALSE, graph |-> g, heads |-> heads, id |-> schemaId]
       ELSE [ok |-> TRUE, graph |-> reg.graph,
             heads |-> IF name \in DOMAIN heads THEN heads
                       ELSE (name :> schemaId) @@ heads,
             id |-> schemaId]

\* Variant: the new schema ID set as a node of its own, without the lens that
\* joins it to 'mu'.
initializeSchemaUnrooted(g, heads, name) ==
    LET schemaId == MD5hex(name)
    IN [ok |-> TRUE,
        graph |-> IF HasNode(g, schemaId) THEN g ELSE SetNode(g, schemaId, emptySchema),
        heads |-> (name :> schemaId) @@ heads, id |-> schemaId]

\* initializeSchema(name).
initializeSchema(g, heads, name) ==
    LET schemaId == MD5hex(name)
        reg == registerLens(g, Mu, schemaId, <<>>)
    IN IF ~reg.ok THEN [ok |-> FALSE, graph |-> g, heads |-> heads, id |-> schemaId]
       ELSE [ok |-> TRUE, graph |-> reg.graph,
             heads |-> (name :> schemaId) @@ heads, id |-> schemaId]

\* Variant: a schema ID that is new at every call (the hash also takes in how
\* many schema IDs the graph holds).
upgradeSchemaByIdAlwaysNew(g, lens, schemaId) ==
    LET newSchemaId == MD5hex(schemaId \o JSONstringify(lens)
                                \o <<ToString(Len(g.nodes))>>)
        reg == registerLens(g, schemaId, newSchemaId, lens)
    IN [ok |-> reg.ok, graph |-> reg.graph, id |-> newSchemaId]

\* upgradeSchemaById(lens, schemaId).
upgradeSchemaById(g, lens, schemaId) ==
    LET newSchemaId == NewSchemaId(schemaId, lens)
        reg == registerLens(g, schemaId, newSchemaId, lens)
    IN [ok |-> reg.ok, graph |-> reg.graph, id |-> newSchemaId]

\* upgradeSchemaById moving along every head that pointed at the predecessor.
upgradeSchemaByIdMovesHeads(heads, schemaId, newSchemaId) ==
    [n \in DOMAIN heads |-> IF heads[n] = schemaId THEN newSchemaId ELSE heads[n]]

\* The head map upgradeSchemaById leaves behind: it assigns to no head.
upgradeSchemaByIdHeads(heads, schemaId, newSchemaId) == heads

\* upgradeSchemaByName registering the lens and leaving the head where it was.
upgradeSchemaByNameHeadUnmoved(g, heads, lens, schemaName) ==
    IF schemaName \notin DOMAIN heads
    THEN [ok |-> FALSE, graph |-> g, heads |-> heads, id |-> <<>>]
    ELSE LET up == upgradeSchemaById(g, lens, heads[schemaName]) IN
         IF ~up.ok THEN [ok |-> FALSE, graph |-> g, heads |-> heads, id |-> up.id]
         ELSE [ok |-> TRUE, graph |-> up.graph, heads |-> heads, id |-> up.id]

\* upgradeSchemaByName initializing a name that has no head instead of throwing.
upgradeSchemaByNameCreatesLineage(g, heads, lens, schemaName) ==
    LET init == IF schemaName \in DOMAIN heads
                THEN [ok |-> TRUE, graph |-> g, heads |-> heads,
                      id |-> heads[schemaName]]
                ELSE initializeSchema(g, heads, schemaName)
        up == upgradeSchemaById(init.graph, lens, init.id)
    IN IF ~up.ok THEN [ok |-> FALSE, graph |-> g, heads |-> heads, id |-> up.id]
       ELSE [ok |-> TRUE, graph |-> up.graph,
             heads |-> (schemaName :> up.id) @@ init.heads, id |-> up.id]

\* Variant: the head assigned before the registration, so that it moves also
\* when the registration throws.
upgradeSchemaByNameHeadFirst(g, heads, lens, schemaName) ==
    IF schemaName \notin DOMAIN heads
    THEN [ok |-> FALSE, graph |-> g, heads |-> heads, id |-> <<>>]
    ELSE LET up == upgradeSchemaById(g, lens, heads[schemaName]) IN
         [ok |-> up.ok, graph |-> up.graph,
          heads |-> (schemaName :> up.id) @@ heads, id |-> up.id]

\* upgradeSchemaByName(lens, schemaName): throws when the name has no head.
upgradeSchemaByName(g, heads, lens, schemaName) ==
    IF schemaName \notin DOMAIN heads
    THEN [ok |-> FALSE, graph |-> g, heads |-> heads, id |-> <<>>]
    ELSE LET up == upgradeSchemaById(g, lens, heads[schemaName]) IN
         IF ~up.ok THEN [ok |-> FALSE, graph |-> g, heads |-> heads, id |-> up.id]
         ELSE [ok |-> TRUE, graph |-> up.graph,
               heads |-> (schemaName :> up.id) @@ heads, id |-> up.id]

\* connectExistingSchemas deriving a successor of to and joining from to it.
connectExistingSchemasDerives(g, lens, from, to) ==
    registerLens(g, from, NewSchemaId(to, lens), lens)

\* Variant: sets the edge and its reverse itself, over a lens that is there.
connectExistingSchemasRelabels(g, lens, from, to) ==
    IF HasNode(g, from) /\ HasNode(g, to)
    THEN [ok |-> TRUE,
          graph |-> SetEdge(SetEdge(g, from, to, lens), to, from, reverseLens(lens))]
    ELSE registerLens(g, from, to, lens)

\* connectExistingSchemas(lens, from, to).
connectExistingSchemas(g, lens, from, to) == registerLens(g, from, to, lens)

\* ------------------------------------------------------------------ inputs

Project == <<"Project">>

Task == <<"Task">>

\* The lenses of the repository's tests.
projectV1Lens == <<addProperty("title", "string"), addProperty("summary", "string")>>

v1Tov2LensSource ==
    <<renameProperty("summary", "description"), addProperty("complete", "boolean")>>

v2ToV3LensSource ==
    <<renameProperty("complete", "status"), convertValue("status", "boolean>string")>>

branch1Lens == <<addProperty("branch1", "string")>>

branch2Lens == <<addProperty("branch2", "string")>>

emptyLens == <<>>

\* v1Tov2LensSource with the keys of its ops written in another order.
v1Tov2Reordered ==
    [i \in 1..Len(v1Tov2LensSource) |-> KeysReordered(v1Tov2LensSource[i])]

\* A schema ID no store has registered.
UnknownId == MD5hex(<<"Nowhere">>)

\* The value a writer assigns to a property of the given type.
ValueOf(prop, type) ==
    IF type = "boolean" THEN "true"
    ELSE CASE prop = "status" -> "'done'"
           [] prop = "branch1" -> "'branch1'"
           [] prop = "branch2" -> "'branch2'"
           [] OTHER -> "'a great project'"

\* The callbacks a writer in the given schema runs: it assigns one declared
\* property a value of its type, changes nothing, or throws.
Callbacks(schema) ==
    {NoopFn, ThrowFn} \cup {SetFn(k, ValueOf(k, schema[k].type)) : k \in DOMAIN schema}

\* The test's initial document.
HelloDoc == ("title" :> "'hello'") @@ ("summary" :> "'this works'")

\* ----------------------------------------------------------------- actions
\* last records the call just made: its arguments, whether it threw, and what
\* it returned (id: a schema ID, val: a typed document).

NoCall ==
    [op |-> "none", threw |-> FALSE, name |-> <<>>, lens |-> <<>>, from |-> <<>>,
     to |-> <<>>, id |-> <<>>, val |-> EmptyObj, fn |-> NoopFn]

\* A second store, with its own graph and head map.
NewStore == [graph |-> initLensGraph, headSchemas |-> [n \in {} |-> <<>>], last |-> NoCall]

Init ==
    /\ graph = initLensGraph
    /\ headSchemas = [n \in {} |-> <<>>]
    /\ doc = MalformedDoc
    /\ last = NoCall
    /\ peer = NewStore
    /\ reads = [r \in Readers |-> NoRead]

Nodes(g) == Range(g.nodes)

InitializeSchema(name) ==
    \E r \in {initializeSchema(graph, headSchemas, name)} :
    /\ graph' = r.graph
    /\ headSchemas' = r.heads
    /\ last' = [NoCall EXCEPT !.op = "initializeSchema", !.threw = ~r.ok,
                              !.name = name, !.id = r.id]
    /\ UNCHANGED <<doc, peer, reads>>

UpgradeSchemaByName(lens, name) ==
    \E r \in {upgradeSchemaByName(graph, headSchemas, lens, name)} :
    /\ graph' = r.graph
    /\ headSchemas' = r.heads
    /\ last' = [NoCall EXCEPT !.op = "upgradeSchemaByName", !.threw = ~r.ok,
                              !.name = name, !.lens = lens, !.id = r.id,
                              !.from = IF name \in DOMAIN headSchemas
                                       THEN headSchemas[name] ELSE <<>>]
    /\ UNCHANGED <<doc, peer, reads>>

UpgradeSchemaById(lens, schemaId) ==
    \E r \in {upgradeSchemaById(graph, lens, schemaId)} :
    /\ graph' = r.graph
    /\ headSchemas' = IF r.ok THEN upgradeSchemaByIdHeads(headSchemas, schemaId, r.id)
                      ELSE headSchemas
    /\ last' = [NoCall EXCEPT !.op = "upgradeSchemaById", !.threw = ~r.ok,
                              !.lens = lens, !.from = schemaId, !.id = r.id]
    /\ UNCHANGED <<doc, peer, reads>>

ConnectExistingSchemas(lens, from, to) ==
    \E r \in {connectExistingSchemas(graph, lens, from, to)} :
    /\ graph' = r.graph
    /\ last' = [NoCall EXCEPT !.op = "connectExistingSchemas", !.threw = ~r.ok,
                              !.lens = lens, !.from = from, !.to = to]
    /\ UNCHANGED <<headSchemas, doc, peer, reads>>

InitDoc(pojo, schemaId) ==
    /\ doc' = initDoc(pojo, schemaId)
    /\ last' = [NoCall EXCEPT !.op = "initDoc", !.to = schemaId, !.val = pojo]
    /\ UNCHANGED <<graph, headSchemas, peer, reads>>

ReadAs(readerSchemaId) ==
    \E r \in {readAs(graph, doc, readerSchemaId)} :
    \E after \in {readAsLeaves(graph, headSchemas, doc, readerSchemaId)} :
    /\ graph' = after.graph
    /\ headSchemas' = after.heads
    /\ doc' = after.doc
    /\ last' = [NoCall EXCEPT !.op = "readAs", !.threw = ~r.ok,
                              !.to = readerSchemaId, !.val = r.doc]
    /\ UNCHANGED <<peer, reads>>

ChangeTypedDoc(writerSchemaId, fn) ==
    \E r \in {changeTypedDoc(graph, doc, writerSchemaId, fn)} :
    /\ doc' = r.doc
    /\ last' = [NoCall EXCEPT !.op = "changeTypedDoc", !.threw = ~r.ok,
                              !.to = writerSchemaId, !.val = r.typedDoc, !.fn = fn]
    /\ UNCHANGED <<graph, headSchemas, peer, reads>>

\* The caller hands in a RawDoc it made itself, with no entries.
NewRawDoc ==
    /\ doc' = EmptyLogDoc
    /\ last' = [NoCall EXCEPT !.op = "newRawDoc"]
    /\ UNCHANGED <<graph, headSchemas, peer, reads>>

\* The document read and written through a CambriaLocalStorage that holds the
\* same graph.
LocalStorageReadAs(readerSchemaId) ==
    \E r \in {readAsLocalStorage(graph, doc, readerSchemaId)} :
    /\ last' = [NoCall EXCEPT !.op = "localStorage.readAs", !.threw = ~r.ok,
                              !.to = readerSchemaId, !.val = r.doc]
    /\ UNCHANGED <<graph, headSchemas, doc, peer, reads>>

LocalStorageChangeTypedDoc(writerSchemaId, fn) ==
    \E r \in {changeTypedDocLocalStorage(graph, doc, writerSchemaId, fn)} :
    /\ doc' = r.doc
    /\ last' = [NoCall EXCEPT !.op = "localStorage.changeTypedDoc", !.threw = ~r.ok,
                              !.to = writerSchemaId, !.val = r.typedDoc, !.fn = fn]
    /\ UNCHANGED <<graph, headSchemas, peer, reads>>

\* readAs(doc, readerSchemaId) taken step by step: the call r starts (the
\* malformed check and the copy of the array), ...
BeginRead(r, readerSchemaId) ==
    /\ ~reads[r].on
    /\ reads' = [reads EXCEPT ![r] =
                    [on |-> TRUE, target |-> readerSchemaId,
                     n |-> Len(doc.patches), pos |-> 0,
                     acc |-> [ok |-> doc.hasPatches, doc |-> EmptyObj]]]
    /\ UNCHANGED <<graph, headSchemas, doc, last, peer>>

\* ... folds its next entry, ...
FoldStep(r) ==
    /\ reads[r].on /\ reads[r].acc.ok /\ reads[r].pos <= reads[r].n
    /\ \E after \in {foldStep(graph, doc, reads, r)} :
          /\ reads' = after.reads
          /\ doc' = after.doc
    /\ UNCHANGED <<graph, headSchemas, last, peer>>

\* ... and returns the accumulator after the last entry, or throws what a
\* step threw.
EndRead(r) ==
    /\ reads[r].on /\ (~reads[r].acc.ok \/ reads[r].pos > reads[r].n)
    /\ reads' = [reads EXCEPT ![r] = NoRead]
    /\ last' = [NoCall EXCEPT !.op = "readAs", !.threw = ~reads[r].acc.ok,
                              !.to = reads[r].target, !.val = reads[r].acc.doc]
    /\ UNCHANGED <<graph, headSchemas, doc, peer>>

\* No readAs call is under way.
AllIdle == \A r \in Readers : ~reads[r].on

\* The same registrations on the second store.
PeerInitializeSchema(name) ==
    \E r \in {initializeSchema(peer.graph, peer.headSchemas, name)} :
    /\ peer' = [graph |-> r.graph, headSchemas |-> r.heads,
                last |-> [NoCall EXCEPT !.op = "initializeSchema", !.threw = ~r.ok,
                                        !.name = name, !.id = r.id]]
    /\ UNCHANGED <<graph, headSchemas, doc, last, reads>>

PeerUpgradeSchemaByName(lens, name) ==
    \E r \in {upgradeSchemaByName(peer.graph, peer.headSchemas, lens, name)} :
    /\ peer' = [graph |-> r.graph, headSchemas |-> r.heads,
                last |-> [NoCall EXCEPT !.op = "upgradeSchemaByName", !.threw = ~r.ok,
                                        !.name = name, !.lens = lens, !.id = r.id,
                                        !.from = IF name \in DOMAIN peer.headSchemas
                                                 THEN peer.headSchemas[name] ELSE <<>>]]
    /\ UNCHANGED <<graph, headSchemas, doc, last, reads>>

PeerUpgradeSchemaById(lens, schemaId) ==
    \E r \in {upgradeSchemaById(peer.graph, lens, schemaId)} :
    /\ peer' = [graph |-> r.graph, headSchemas |-> peer.headSchemas,
                last |-> [NoCall EXCEPT !.op = "upgradeSchemaById", !.threw = ~r.ok,
                                        !.lens = lens, !.from = schemaId, !.id = r.id]]
    /\ UNCHANGED <<graph, headSchemas, doc, last, reads>>

\* The schema IDs a caller passes: those of the graph and one it never saw.
KnownIds == Nodes(graph) \cup {UnknownId}

SchemaOf(id) == IF HasNode(graph, id) THEN lensGraphSchema(graph, id) ELSE emptySchema

\* The schema IDs whose schema declares exactly the properties of pojo.
Fitting(pojo) == {id \in Nodes(graph) : DOMAIN lensGraphSchema(graph, id) = DOMAIN pojo}

\* The model's bounds on a step: the graph's nodes and the document's log.
Within(maxNodes, maxLog) ==
    Len(graph'.nodes) <= maxNodes /\ Len(doc'.patches) <= maxLog

\* ---- Spec: the linear chain of the tests (Project, V1, V2, V3), one document.
ChainLenses == {projectV1Lens, v1Tov2LensSource, v2ToV3LensSource}

\* The schema IDs the heads point at.
Heads == {headSchemas[n] : n \in DOMAIN headSchemas}

Next ==
    \/ InitializeSchema(Project) /\ Within(MaxNodes, MaxLog)
    \/ \E lens \in ChainLenses :
          UpgradeSchemaByName(lens, Project) /\ Within(MaxNodes, MaxLog)
    \/ \E lens \in ChainLenses : \E id \in Heads \cup {UnknownId} :
          UpgradeSchemaById(lens, id) /\ Within(MaxNodes, MaxLog)
    \/ \E id \in Fitting(HelloDoc) : InitDoc(HelloDoc, id)
    \/ \E id \in KnownIds : ReadAs(id)
    \/ \E id \in KnownIds : \E fn \in Callbacks(SchemaOf(id)) :
          ChangeTypedDoc(id, fn) /\ Within(MaxNodes, MaxLog)

Spec == Init /\ [][Next]_vars

\* ---- SpecBranch: the divergent branches of the tests, bridged by a lens.
MaxBranchNodes == 6

MaxBranchLog == 3

BranchLenses == {projectV1Lens, branch1Lens, branch2Lens}

\* The properties of the schema a test lens was written for.
LensBase(lens) == IF lens = projectV1Lens THEN {} ELSE {"title", "summary"}

Declares(id, props) == props \subseteq DOMAIN lensGraphSchema(graph, id)

BranchCallbacks(schema) ==
    {SetFn(k, ValueOf(k, "string")) : k \in DOMAIN schema \cap {"branch1", "branch2"}}

NextBranch ==
    \/ InitializeSchema(Project) /\ Within(MaxBranchNodes, MaxBranchLog)
    \/ \E lens \in BranchLenses :
          /\ Project \in DOMAIN headSchemas
          /\ DOMAIN lensGraphSchema(graph, headSchemas[Project]) = LensBase(lens)
          /\ UpgradeSchemaByName(lens, Project)
          /\ Within(MaxBranchNodes, MaxBranchLog)
    \/ \E id \in Nodes(graph) :
          /\ Declares(id, {"branch1"}) /\ ~Declares(id, {"branch2"})
          /\ UpgradeSchemaById(branch2Lens, id)
          /\ Within(MaxBranchNodes, MaxBranchLog)
    \/ \E from \in Nodes(graph), to \in Nodes(graph) :
          /\ from # to
          /\ Declares(from, {"branch2"}) /\ Declares(to, {"branch2"})
          /\ ConnectExistingSchemas(emptyLens, from, to)
    \/ \E id \in Fitting(HelloDoc) : InitDoc(HelloDoc, id)
    \/ \E id \in Nodes(graph) : ReadAs(id)
    \/ \E id \in Nodes(graph) : \E fn \in BranchCallbacks(SchemaOf(id)) :
          ChangeTypedDoc(id, fn) /\ Within(MaxBranchNodes, MaxBranchLog)

SpecBranch == Init /\ [][NextBranch]_vars

\* ---- SpecGraph: registrations alone, under two names, with lenses that fit
\* their base schema and lenses that do not, and IDs the graph does not hold.
MaxGraphNodes == 4

MaxGraphEdges == 8

Names == {Project, Task}

GraphLenses == {projectV1Lens, v1Tov2LensSource}

NextGraph ==
    \/ \E name \in Names :
          InitializeSchema(name) /\ Within(MaxGraphNodes, 0)
    \/ \E lens \in GraphLenses : \E name \in Names :
          UpgradeSchemaByName(lens, name) /\ Within(MaxGraphNodes, 0)
    \/ \E lens \in GraphLenses : \E id \in Heads \cup {Mu, UnknownId} :
          UpgradeSchemaById(lens, id) /\ Within(MaxGraphNodes, 0)
    \/ \E from \in KnownIds, to \in Heads :
          ConnectExistingSchemas(emptyLens, from, to) /\ Len(graph'.edges) <= MaxGraphEdges

SpecGraph == Init /\ [][NextGraph]_vars

\* ---- SpecStores: two stores registering the same lineage independently.
MaxStoreNodes == 4

StoreLenses == {projectV1Lens, v1Tov2LensSource, v1Tov2Reordered}

\* A lineage name spelled as the text upgradeSchemaById hashes for the first
\* version of Project: the hex ID of Project's root followed by the lens's JSON.
VersionText == MD5hex(Project) \o JSONstringify(projectV1Lens)

StoreNames == {Project, VersionText}

NextStores ==
    \/ InitializeSchema(Project)
    \/ \E lens \in StoreLenses :
          UpgradeSchemaByName(lens, Project) /\ Len(graph'.nodes) <= MaxStoreNodes
    \/ \E lens \in StoreLenses : \E id \in Heads :
          UpgradeSchemaById(lens, id) /\ Len(graph'.nodes) <= MaxStoreNodes
    \/ \E name \in StoreNames :
          PeerInitializeSchema(name) /\ Len(peer'.graph.nodes) <= MaxStoreNodes
    \/ \E lens \in StoreLenses :
          PeerUpgradeSchemaByName(lens, Project) /\ Len(peer'.graph.nodes) <= MaxStoreNodes
    \/ \E lens \in StoreLenses : \E id \in {peer.headSchemas[n] : n \in DOMAIN peer.headSchemas} :
          PeerUpgradeSchemaById(lens, id) /\ Len(peer'.graph.nodes) <= MaxStoreNodes

SpecStores == Init /\ [][NextStores]_vars

\* ---- SpecReads: two readAs calls on one document, their steps interleaved;
\* registrations and writes run between reads, never during one.
MaxReadNodes == 4

MaxReadLog == 2

ReadLenses == {projectV1Lens, v1Tov2LensSource}

NextReads ==
    \/ AllIdle /\ InitializeSchema(Project) /\ Within(MaxReadNodes, MaxReadLog)
    \/ \E lens \in ReadLenses :
          AllIdle /\ UpgradeSchemaByName(lens, Project) /\ Within(MaxReadNodes, MaxReadLog)
    \/ \E id \in Fitting(HelloDoc) : AllIdle /\ InitDoc(HelloDoc, id)
    \/ \E id \in Nodes(graph) : \E fn \in Callbacks(SchemaOf(id)) \ {NoopFn, ThrowFn} :
          AllIdle /\ ChangeTypedDoc(id, fn) /\ Within(MaxReadNodes, MaxReadLog)
    \/ \E r \in Readers : \E id \in KnownIds : BeginRead(r, id)
    \/ \E r \in Readers : FoldStep(r)
    \/ \E r \in Readers : EndRead(r)

SpecReads == Init /\ [][NextReads]_vars

\* ---- SpecDoc: documents of any shape under any schema ID, on a short chain.
MaxDocNodes == 4

MaxDocLog == 2

DocLenses == {projectV1Lens, v1Tov2LensSource}

\* A document that leaves out a property of V1.
TitleOnly == "title" :> "'hello'"

Pojos == {HelloDoc, TitleOnly}

NextDoc ==
    \/ InitializeSchema(Project) /\ Within(MaxDocNodes, MaxDocLog)
    \/ \E lens \in DocLenses :
          UpgradeSchemaByName(lens, Project) /\ Within(MaxDocNodes, MaxDocLog)
    \/ \E pojo \in Pojos : \E id \in KnownIds : InitDoc(pojo, id)
    \/ \E id \in KnownIds : ReadAs(id)
    \/ \E id \in KnownIds : \E fn \in Callbacks(SchemaOf(id)) :
          ChangeTypedDoc(id, fn) /\ Within(MaxDocNodes, MaxDocLog)

SpecDoc == Init /\ [][NextDoc]_vars

\* ---- SpecVariants: one document read and written through both variants of
\* the store, on a short chain.
NextVariants ==
    \/ InitializeSchema(Project) /\ Within(MaxDocNodes, MaxDocLog)
    \/ \E lens \in DocLenses :
          UpgradeSchemaByName(lens, Project) /\ Within(MaxDocNodes, MaxDocLog)
    \/ \E pojo \in Pojos :
          \E id \in {n \in Nodes(graph) : DOMAIN pojo \subseteq DOMAIN SchemaOf(n)} :
             InitDoc(pojo, id)
    \/ NewRawDoc
    \/ \E id \in KnownIds : ReadAs(id)
    \/ \E id \in KnownIds : LocalStorageReadAs(id)
    \/ \E id \in Nodes(graph) : \E fn \in Callbacks(SchemaOf(id)) \ {NoopFn, ThrowFn} :
          ChangeTypedDoc(id, fn) /\ Within(MaxDocNodes, MaxDocLog)
    \/ \E id \in Nodes(graph) : \E fn \in Callbacks(SchemaOf(id)) \ {NoopFn, ThrowFn} :
          LocalStorageChangeTypedDoc(id, fn) /\ Within(MaxDocNodes, MaxDocLog)

SpecVariants == Init /\ [][NextVariants]_vars

\* ------------------------------------------------------------ properties

\* The schema IDs of the tests' versions.
ProjectRoot == MD5hex(Project)

ProjectV1 == NewSchemaId(ProjectRoot, projectV1Lens)

ProjectV2 == NewSchemaId(ProjectV1, v1Tov2LensSource)

ProjectV3 == NewSchemaId(ProjectV2, v2ToV3LensSource)

BranchA == NewSchemaId(ProjectV1, branch1Lens)

BranchB == NewSchemaId(ProjectV1, branch2Lens)

Combined == NewSchemaId(BranchA, branch2Lens)

Wrote == last.op = "changeTypedDoc" /\ ~last.threw

Upgrades == {"upgradeSchemaByName", "upgradeSchemaById"}

\* C1: after a successful changeTypedDoc(D, S, f), readAs(D, S) is f applied to
\* the value readAs(D, S) had immediately before the call.
C1_ReadAfterWrite ==
    Wrote => readAs(graph, doc, last.to)
                 = [ok |-> TRUE, doc |-> ApplyCallback(last.fn, last.val)]

\* A write under one schema that changed a property of a document another
\* schema created.
C1_Witness ==
    /\ Wrote
    /\ last.fn.kind = "set"
    /\ last.val[last.fn.prop] # last.fn.value
    /\ Len(doc.patches) = 2
    /\ doc.patches[1].schemaId # last.to
    /\ readAs(graph, doc, last.to).doc[last.fn.prop] = last.fn.value

\* The patch of the write just made, converted for a reader in schema T along
\* the lens path the graph resolves.
WriteConvertedFor(T) ==
    applyLensToPatch(lensFromTo(graph, last.to, T).lens,
                     doc.patches[Len(doc.patches)].patch,
                     lensGraphSchema(graph, last.to))

BranchScenario ==
    /\ {BranchA, BranchB, Combined} \subseteq Nodes(graph)
    /\ doc.hasPatches
    /\ Len(doc.patches) = 3
    /\ doc.patches[1].schemaId = ProjectV1
    /\ \E i \in 2..3, j \in 2..3, o1 \in {"add", "replace"}, o2 \in {"add", "replace"} :
          /\ doc.patches[i] = [schemaId |-> BranchA,
                               patch |-> <<PatchOp(o1, "branch1", "'branch1'")>>]
          /\ doc.patches[j] = [schemaId |-> BranchB,
                               patch |-> <<PatchOp(o2, "branch2", "'branch2'")>>]

\* C5: in the divergent-branches scenario readAs(doc, Combined) shows the value
\* written to branch1 and, while no edge joins BranchB and Combined, the default
\* of branch2; once connectExistingSchemas([], BranchB, Combined) has added the
\* edge, it shows the value written to branch2 as well.
C5_BranchReconciliation ==
    BranchScenario =>
        LET r == readAs(graph, doc, Combined)
        IN /\ r.ok
           /\ {"branch1", "branch2"} \subseteq DOMAIN r.doc
           /\ r.doc["branch1"] = "'branch1'"
           /\ r.doc["branch2"] = IF HasEdge(graph, BranchB, Combined)
                                 THEN "'branch2'" ELSE "''"

\* The scenario just after the bridging lens was registered.
C5_Witness ==
    /\ BranchScenario
    /\ last.op = "connectExistingSchemas"
    /\ ~last.threw
    /\ last.from = BranchB
    /\ last.to = Combined
    /\ last.lens = emptyLens
    /\ readAs(graph, doc, Combined).doc["branch2"] = "'branch2'"

\* The tests' chain: its versions, and each field's name in each version.
ChainIds == <<ProjectV1, ProjectV2, ProjectV3>>

ChainFields ==
    << <<"title", "title", "title">>,
       <<"summary", "description", "description">>,
       <<"", "complete", "status">> >>

\* The value a field written as v in version i has in version j.
ChainValue(row, i, j, v) ==
    IF row = 3 /\ i # j
    THEN IF i = 2 THEN (IF v = "true" THEN "'done'" ELSE "'todo'")
         ELSE (IF v = "'done'" THEN "true" ELSE "false")
    ELSE v

\* A document all of whose entries versions of the chain wrote.
ChainDoc ==
    doc.hasPatches /\ \A k \in 1..Len(doc.patches) : doc.patches[k].schemaId \in Range(ChainIds)

\* C6: on the chain V1, V2, V3 a write to a field under one version, to a
\* document the chain's versions wrote, is read back from every version of the
\* chain that has the field, older or newer, under the field's name there and
\* with its value mapped.
C6_ChainRoundTrip ==
    \A i \in 1..3, j \in 1..3, row \in 1..3 :
        (/\ Wrote
         /\ ChainDoc
         /\ last.fn.kind = "set"
         /\ last.to = ChainIds[i]
         /\ last.fn.prop = ChainFields[row][i]
         /\ HasNode(graph, ChainIds[j])
         /\ ChainFields[row][j] # "") =>
            LET r == readAs(graph, doc, ChainIds[j])
            IN /\ r.ok
               /\ ChainFields[row][j] \in DOMAIN r.doc
               /\ r.doc[ChainFields[row][j]] = ChainValue(row, i, j, last.fn.value)

\* A V2 write complete = true on a document created under V1, read under V3 as
\* status = 'done' and under V1 untouched.
C6_Witness ==
    /\ Wrote
    /\ last.to = ProjectV2
    /\ last.fn = SetFn("complete", "true")
    /\ doc.patches[1].schemaId = ProjectV1
    /\ HasNode(graph, ProjectV3)
    /\ readAs(graph, doc, ProjectV3).doc["status"] = "'done'"
    /\ readAs(graph, doc, ProjectV1) = [ok |-> TRUE, doc |-> HelloDoc]

C8_SameIdentityAcrossStores ==
    /\ (/\ last.op \in Upgrades /\ peer.last.op \in Upgrades
        /\ ~last.threw /\ ~peer.last.threw
        /\ last.from = peer.last.from
        /\ LensContent(last.lens) = LensContent(peer.last.lens)) =>
           last.id = peer.last.id
    /\ (/\ last.op = "initializeSchema" /\ peer.last.op = "initializeSchema"
        /\ last.name = peer.last.name) =>
           last.id = peer.last.id

\* C9: a successful upgradeSchemaByName(lens, name) returns the hash of the old
\* head and the lens, the graph holds the edge from the old head to it with the
\* lens as its label, head[name] is the returned ID and every other head is as
\* it was.
C9_UpgradeByName ==
    [][(/\ last'.op = "upgradeSchemaByName"
        /\ ~last'.threw
        /\ last'.name \in DOMAIN headSchemas) =>
           LET old == headSchemas[last'.name]
           IN /\ last'.id = MD5hex(old \o JSONstringify(last'.lens))
              /\ HasEdge(graph', old, last'.id)
              /\ EdgeLens(graph', old, last'.id) = last'.lens
              /\ DOMAIN headSchemas' = DOMAIN headSchemas
              /\ headSchemas'[last'.name] = last'.id
              /\ \A n \in DOMAIN headSchemas \ {last'.name} :
                     headSchemas'[n] = headSchemas[n]]_vars

\* An upgrade of Project's head while Task has a head of its own.
C9_Witness ==
    /\ last.op = "upgradeSchemaByName"
    /\ ~last.threw
    /\ last.name = Project
    /\ last.lens = projectV1Lens
    /\ last.from = ProjectRoot
    /\ headSchemas[Project] = last.id
    /\ last.id = NewSchemaId(last.from, last.lens)
    /\ Task \in DOMAIN headSchemas
    /\ headSchemas[Task] # last.id

\* C10: upgradeSchemaByName on a name without a head throws and leaves the
\* graph and the head map as they were.
C10_UnknownLineage ==
    [][(last'.op = "upgradeSchemaByName" /\ last'.name \notin DOMAIN headSchemas) =>
           /\ last'.threw
           /\ graph' = graph
           /\ headSchemas' = headSchemas]_vars

\* A failed upgrade of Task in a store that holds Project's lineage.
C10_Witness ==
    /\ last.op = "upgradeSchemaByName"
    /\ last.threw
    /\ last.name = Task
    /\ Task \notin DOMAIN headSchemas
    /\ Project \in DOMAIN headSchemas
    /\ headSchemas[Project] # ProjectRoot

\* An entry of the document whose writer's schema has no lens path to T.
NoPathTo(T) ==
    \E k \in 1..Len(doc.patches) : ~lensFromTo(graph, doc.patches[k].schemaId, T).ok

\* C11: readAs(D, T) throws when an entry's schema has no lens path to T;
\* changeTypedDoc(D, W, f) throws when its readAs(D, W) throws or f throws; a
\* readAs or changeTypedDoc that throws leaves the document's log, the graph
\* and the head map as they were.
C11_AtomicFailure ==
    [][/\ (last'.op = "readAs" /\ doc.hasPatches /\ NoPathTo(last'.to)) => last'.threw
       /\ (/\ last'.op = "changeTypedDoc"
           /\ (~readAs(graph, doc, last'.to).ok \/ last'.fn.kind = "throw")) =>
              last'.threw
       /\ (last'.op \in {"readAs", "changeTypedDoc"} /\ last'.threw) =>
              /\ doc' = doc
              /\ graph' = graph
              /\ headSchemas' = headSchemas]_vars

\* A write under a schema of the graph, thrown back because the document's
\* entry comes from a schema the graph does not hold.
C11_Witness ==
    /\ last.op = "changeTypedDoc"
    /\ last.threw
    /\ last.fn.kind = "set"
    /\ HasNode(graph, last.to)
    /\ doc.hasPatches
    /\ Len(doc.patches) = 1
    /\ doc.patches[1].schemaId = UnknownId
    /\ NoPathTo(last.to)

\* C12: an upgradeSchemaById(lens, from) step returns the ID, and leaves the
\* graph, that upgradeSchemaByName(lens, name) gives for a name whose head is
\* from: the hash of from and the lens, joined to from by an edge labelled with
\* the lens; and it leaves every head as it was, the heads equal to from too.
C12_UpgradeByIdKeepsHeads ==
    [][last'.op = "upgradeSchemaById" =>
          /\ headSchemas' = headSchemas
          /\ ~last'.threw =>
                 /\ last'.id = MD5hex(last'.from \o JSONstringify(last'.lens))
                 /\ HasEdge(graph', last'.from, last'.id)
                 /\ EdgeLens(graph', last'.from, last'.id) = last'.lens
          /\ \A n \in DOMAIN headSchemas :
                 headSchemas[n] = last'.from =>
                     LET byName == upgradeSchemaByName(graph, headSchemas, last'.lens, n)
                     IN /\ byName.ok = ~last'.threw
                        /\ byName.ok => byName.id = last'.id
                        /\ byName.graph = graph']_vars

\* An upgrade by ID of the schema Project's head points at: the head stays.
C12_Witness ==
    /\ last.op = "upgradeSchemaById"
    /\ ~last.threw
    /\ Project \in DOMAIN headSchemas
    /\ headSchemas[Project] = last.from
    /\ last.lens = projectV1Lens
    /\ HasEdge(graph, last.from, last.id)
    /\ Task \in DOMAIN headSchemas

\* C13: a connectExistingSchemas(lens, from, to) step leaves the head map as
\* it was, and when the graph holds from and to it does not throw, the graph
\* holds the same schema IDs after it as before, and from is joined to to.
C13_ConnectAddsNoIdentity ==
    [][last'.op = "connectExistingSchemas" =>
          /\ headSchemas' = headSchemas
          /\ (HasNode(graph, last'.from) /\ HasNode(graph, last'.to)) =>
                 /\ ~last'.threw
                 /\ graph'.nodes = graph.nodes
                 /\ graph'.labels = graph.labels
                 /\ HasEdge(graph', last'.from, last'.to)]_vars

\* Task's root joined to the first version of Project.
C13_Witness ==
    /\ last.op = "connectExistingSchemas"
    /\ ~last.threw
    /\ last.from = MD5hex(Task)
    /\ last.to = ProjectV1
    /\ HasEdge(graph, MD5hex(Task), ProjectV1)
    /\ EdgeLens(graph, MD5hex(Task), ProjectV1) = emptyLens
    /\ Cardinality(Nodes(graph)) = MaxGraphNodes

\* Graph h holds every schema ID of graph g with its schema and every edge of
\* g with its lens.
GraphKept(g, h) ==
    /\ \A i \in 1..Len(g.nodes) :
           HasNode(h, g.nodes[i]) /\ lensGraphSchema(h, g.nodes[i]) = g.labels[i]
    /\ \A i \in 1..Len(g.edges) :
           /\ HasEdge(h, g.edges[i].v, g.edges[i].w)
           /\ EdgeLens(h, g.edges[i].v, g.edges[i].w) = g.edges[i].lens

\* C14: an initializeSchema(name) step does not throw, returns the hash of the
\* name, joins it to the root sentinel and makes it head[name], also when the
\* name had a head that upgrades had moved on; the schema IDs and edges the
\* graph held stay, and the other names keep their heads.
C14_InitializeReroots ==
    [][last'.op = "initializeSchema" =>
          /\ ~last'.threw
          /\ last'.id = MD5hex(last'.name)
          /\ HasEdge(graph', Mu, last'.id)
          /\ headSchemas' = (last'.name :> last'.id) @@ headSchemas
          /\ \A n \in DOMAIN headSchemas \ {last'.name} : headSchemas'[n] = headSchemas[n]
          /\ GraphKept(graph, graph')]_vars

\* Project initialized again after its head had moved to V1 and on to V2.
C14_Witness ==
    /\ last.op = "initializeSchema"
    /\ last.name = Project
    /\ headSchemas[Project] = ProjectRoot
    /\ HasEdge(graph, ProjectRoot, ProjectV1)
    /\ HasEdge(graph, ProjectV1, ProjectV2)
    /\ Task \notin DOMAIN headSchemas

\* Some entry of the document, converted for a reader in schema T, has an op
\* on property p.
Touched(T, p) ==
    \E k \in 1..Len(doc.patches) :
        LET entry == doc.patches[k]
            lens == lensFromTo(graph, entry.schemaId, T)
        IN /\ lens.ok
           /\ LET conv == applyLensToPatch(lens.lens, entry.patch,
                                           lensGraphSchema(graph, entry.schemaId))
              IN conv.ok /\ \E j \in 1..Len(conv.patch) : conv.patch[j].path = p

\* C15: whenever readAs(D, T) returns for a schema T of the graph, every
\* property T declares that no entry of D touches is in the result with the
\* default T's schema gives it.
C15_DefaultsMaterialize ==
    \A T \in Nodes(graph) :
        doc.hasPatches =>
            LET r == readAs(graph, doc, T)
                schema == lensGraphSchema(graph, T)
            IN r.ok =>
                   \A p \in DOMAIN schema :
                       ~Touched(T, p) =>
                           p \in DOMAIN r.doc /\ r.doc[p] = schema[p].default

\* The V1 document of the tests read as V2: complete is false.
C15_Witness ==
    /\ last.op = "readAs"
    /\ ~last.threw
    /\ last.to = ProjectV2
    /\ doc.patches = <<[schemaId |-> ProjectV1, patch |-> CompareWithEmpty(HelloDoc)]>>
    /\ ~Touched(ProjectV2, "complete")
    /\ last.val = ("title" :> "'hello'") @@ ("description" :> "'this works'")
                    @@ ("complete" :> "false")

\* C16: an initDoc(pojo, schemaId) step does not throw, whatever the pojo and
\* whether or not the graph holds schemaId; the document it returns has one
\* entry, tagged schemaId, whose patch applied to {} gives the pojo; the graph
\* and the head map stay as they were.
C16_InitDoc ==
    [][last'.op = "initDoc" =>
          /\ ~last'.threw
          /\ doc'.hasPatches
          /\ Len(doc'.patches) = 1
          /\ doc'.patches[1].schemaId = last'.to
          /\ applyPatch(EmptyObj, doc'.patches[1].patch) = [ok |-> TRUE, doc |-> last'.val]
          /\ graph' = graph
          /\ headSchemas' = headSchemas]_vars

\* A document that fits no schema, created under a schema ID the graph lacks.
C16_Witness ==
    /\ last.op = "initDoc"
    /\ last.to = UnknownId
    /\ ~HasNode(graph, UnknownId)
    /\ last.val = TitleOnly
    /\ doc.patches = <<[schemaId |-> UnknownId,
                        patch |-> <<PatchOp("add", "title", "'hello'")>>]>>
    /\ Len(graph.nodes) = MaxDocNodes

\* A call that returned a schema ID.
Produced(call) ==
    call.op \in Upgrades \cup {"initializeSchema"} /\ ~call.threw

\* Two calls that take the same step of a history: they initialize the same
\* name, or they upgrade the same predecessor with lenses of the same content.
SameStep(a, b) ==
    \/ a.op = "initializeSchema" /\ b.op = "initializeSchema" /\ a.name = b.name
    \/ /\ a.op \in Upgrades /\ b.op \in Upgrades
       /\ a.from = b.from
       /\ LensContent(a.lens) = LensContent(b.lens)

\* C17: two schema IDs the stores returned are equal if and only if the calls
\* that returned them take the same step of a history (the same name, or the
\* same lens on the same predecessor), so that equal IDs mean equal histories
\* of a name followed by lenses and different histories mean different IDs.
C17_IdentityIffHistory ==
    (Produced(last) /\ Produced(peer.last)) =>
        (last.id = peer.last.id <=> SameStep(last, peer.last))

\* C18: the schema graph only grows: a call of initializeSchema,
\* upgradeSchemaByName, upgradeSchemaById or connectExistingSchemas, whether it
\* returns or throws, leaves every schema ID with its schema and every edge
\* with its lens, and a call that throws leaves the graph as it was.
C18_GraphAppendOnly ==
    [][/\ GraphKept(graph, graph')
       /\ last'.threw => graph' = graph]_vars

\* connectExistingSchemas asked for an empty lens between Project's root and
\* its first version, which the upgrade had joined with projectV1Lens.
C18_Witness ==
    /\ last.op = "connectExistingSchemas" /\ ~last.threw
    /\ last.from = ProjectRoot /\ last.to = ProjectV1
    /\ last.lens = emptyLens
    /\ HasEdge(graph, ProjectRoot, ProjectV1)
    /\ EdgeLens(graph, ProjectRoot, ProjectV1) = projectV1Lens

\* The edge at position i was set for a registration from -> to, and not as
\* the reverse that registerLens sets right after it.
RECURSIVE IsRegistered(_, _)
IsRegistered(edges, i) ==
    \/ i = 1
    \/ ~ /\ IsRegistered(edges, i - 1)
         /\ edges[i - 1].v = edges[i].w
         /\ edges[i - 1].w = edges[i].v

\* The predecessor-to-successor pairs of the graph.
Registered(g) ==
    {<<g.edges[i].v, g.edges[i].w>> :
        i \in {j \in 1..Len(g.edges) : IsRegistered(g.edges, j)}}

\* The schema IDs a set of IDs reaches along the pairs E, itself included.
RECURSIVE ReachFrom(_, _)
ReachFrom(E, S) ==
    LET next == S \cup {e[2] : e \in {f \in E : f[1] \in S}}
    IN IF next = S THEN S ELSE ReachFrom(E, next)

\* C19: in every state the registered predecessor-to-successor edges of the
\* schema graph form a directed acyclic graph rooted at the sentinel: no
\* edge leads to a schema ID from which its own start is reached, and every
\* schema ID is reached from the sentinel.
C19_RegisteredEdgesAcyclic ==
    /\ \A e \in Registered(graph) : e[1] \notin ReachFrom(Registered(graph), {e[2]})
    /\ Nodes(graph) \subseteq ReachFrom(Registered(graph), {Mu})

\* C20: readAs and changeTypedDoc on a document that has no patches field
\* throw, whatever the schema ID and the callback, hand back no typed
\* document, and leave the document, the graph and the heads as they were.
C20_MalformedDocThrows ==
    [][(last'.op \in {"readAs", "changeTypedDoc"} /\ ~doc.hasPatches) =>
          /\ last'.threw
          /\ last'.val = EmptyObj
          /\ doc' = doc
          /\ graph' = graph
          /\ headSchemas' = headSchemas]_vars

\* A write of a property under V1, which the graph holds, thrown back by a
\* document without patches.
C20_Witness ==
    /\ last.op = "changeTypedDoc" /\ last.threw
    /\ last.fn.kind = "set"
    /\ last.to = ProjectV1 /\ HasNode(graph, ProjectV1)
    /\ ~doc.hasPatches

\* C21: while readAs calls on one document are under way with their steps
\* interleaved, a step of one call assigns neither the document, the graph nor
\* another call's accumulator, and a call that ends returns what readAs
\* returns for its schema when run alone.
C21_InterleavedReads ==
    [][reads' # reads =>
          /\ doc' = doc /\ graph' = graph /\ headSchemas' = headSchemas
          /\ \A r \in Readers :
                /\ (reads'[r].acc # reads[r].acc \/ reads'[r].pos # reads[r].pos) =>
                      \A o \in Readers \ {r} : reads'[o] = reads[o]
                /\ (reads[r].on /\ ~reads'[r].on) =>
                      /\ last'.op = "readAs" /\ last'.to = reads[r].target
                      /\ readAs(graph, doc, reads[r].target)
                            = [ok |-> ~last'.threw, doc |-> last'.val]]_vars

\* Two calls in the middle of their folds of a two-entry log, under V1 and
\* under V2, one of them a step ahead of the other.
C21_Witness ==
    /\ reads["a"].on /\ reads["b"].on
    /\ reads["a"].target = ProjectV1 /\ reads["b"].target = ProjectV2
    /\ reads["a"].n = 2 /\ reads["a"].pos = 1
    /\ reads["b"].n = 2 /\ reads["b"].pos = 2
    /\ reads["a"].acc.ok /\ reads["b"].acc.ok
    /\ reads["b"].acc.doc # EmptyObj

\* The patch of the k-th entry of the document as the schema T sees it.
ConvertedFor(k, T) ==
    applyLensToPatch(lensFromTo(graph, doc.patches[k].schemaId, T).lens,
                     doc.patches[k].patch,
                     lensGraphSchema(graph, doc.patches[k].schemaId))

\* The k-th entry's j-th op, seen from T, is the last in the log on its path.
LastOn(k, j, T) ==
    LET path == ConvertedFor(k, T).patch[j].path
    IN /\ \A i \in (j + 1)..Len(ConvertedFor(k, T).patch) :
              ConvertedFor(k, T).patch[i].path # path
       /\ \A m \in (k + 1)..Len(doc.patches) :
              \A i \in 1..Len(ConvertedFor(m, T).patch) :
                  ConvertedFor(m, T).patch[i].path # path

\* C22: whenever readAs(D, T) returns, each property that entries of D write
\* for T holds the value of the entry latest in the log that writes it,
\* converted from that entry's schema to T, whatever schemas the earlier
\* writers of the property had.
C22_LaterEntryWins ==
    \A T \in Nodes(graph) :
        (doc.hasPatches /\ readAs(graph, doc, T).ok) =>
            \A k \in 1..Len(doc.patches) :
                \A j \in 1..Len(ConvertedFor(k, T).patch) :
                    LastOn(k, j, T) =>
                        LET op == ConvertedFor(k, T).patch[j]
                            r == readAs(graph, doc, T).doc
                        IN op.path \in DOMAIN r /\ r[op.path] = op.value

\* The document created under V1 with a summary, its description then written
\* under V2, and read under V1: summary holds what the V2 writer wrote.
C22_Witness ==
    /\ last.op = "readAs" /\ ~last.threw /\ last.to = ProjectV1
    /\ Len(doc.patches) = 2
    /\ doc.patches[1].schemaId = ProjectV1
    /\ doc.patches[2].schemaId = ProjectV2
    /\ doc.patches[2].patch = <<PatchOp("replace", "description", "'a great project'")>>
    /\ last.val["summary"] = "'a great project'"

\* The two reads of the document under T agree on what entries wrote and
\* differ on the rest: the properties an entry touches have one value in both,
\* the others hold T's default in the store's read and are absent from
\* CambriaLocalStorage's.
VariantsAgree(T) ==
    LET withInit == readAs(graph, doc, T).doc
        without == readAsLocalStorage(graph, doc, T).doc
        schema == lensGraphSchema(graph, T)
    IN \A p \in DOMAIN schema \cup DOMAIN withInit \cup DOMAIN without :
           IF Touched(T, p)
           THEN /\ p \in DOMAIN withInit /\ p \in DOMAIN without
                /\ withInit[p] = without[p]
           ELSE /\ p \in DOMAIN withInit /\ withInit[p] = schema[p].default
                /\ p \notin DOMAIN without

\* C23 as stated: for every document and every schema T of the graph that the
\* store reads it under, CambriaLocalStorage's read returns too, with the same
\* value for each property an entry wrote and without the defaulted ones.
C23_VariantsDifferOnDefaults ==
    \A T \in Nodes(graph) :
        (doc.hasPatches /\ readAs(graph, doc, T).ok) =>
            readAsLocalStorage(graph, doc, T).ok /\ VariantsAgree(T)

\* C23, amended: for every document and every schema T of the graph under
\* which both reads return, they return the same value for each property an
\* entry wrote, and the properties no entry wrote hold T's defaults in the
\* store's read and are absent from CambriaLocalStorage's.
C23_VariantsAgreeWhereBothReturn ==
    \A T \in Nodes(graph) :
        (doc.hasPatches /\ readAs(graph, doc, T).ok
            /\ readAsLocalStorage(graph, doc, T).ok) => VariantsAgree(T)

\* A document created under V1 with a title only, read under V2 through
\* CambriaLocalStorage: title is there, complete and description are not,
\* and the store's read holds their defaults.
C23_Witness ==
    /\ last.op = "localStorage.readAs" /\ ~last.threw /\ last.to = ProjectV2
    /\ doc.hasPatches /\ doc.patches[1].schemaId = ProjectV1
    /\ DOMAIN last.val = {"title"}
    /\ readAs(graph, doc, ProjectV2).ok
    /\ readAs(graph, doc, ProjectV2).doc["title"] = last.val["title"]
    /\ readAs(graph, doc, ProjectV2).doc["complete"] = "false"

\* C24: in every state, every schema ID of the graph reaches the sentinel and
\* is reached from it, and lensFromTo finds a lens path between any two
\* schema IDs of the graph, so that a lookup (as readAs makes it for each
\* entry) fails for lack of a path only when the writer's or the reader's
\* schema ID is not in the graph.
C24_GraphConnected ==
    /\ \A a \in Nodes(graph) :
          lensFromTo(graph, a, Mu).ok /\ lensFromTo(graph, Mu, a).ok
    /\ \A a, b \in KnownIds :
          ~lensFromTo(graph, a, b).ok <=> (a \notin Nodes(graph) \/ b \notin Nodes(graph))

\* Task was initialized beside Project's first version: no edge joins the two,
\* the path between them runs over the sentinel.
C24_Witness ==
    /\ last.op = "initializeSchema" /\ last.id = MD5hex(Task)
    /\ HasNode(graph, ProjectV1)
    /\ ~HasEdge(graph, MD5hex(Task), ProjectV1)
    /\ lensFromTo(graph, MD5hex(Task), ProjectV1).ok
    /\ lensFromTo(graph, MD5hex(Task), ProjectV1).lens = projectV1Lens
    /\ lensFromTo(graph, ProjectV1, MD5hex(Task)).lens = reverseLens(projectV1Lens)
    /\ ~lensFromTo(graph, UnknownId, ProjectV1).ok

\* C25: after every step each head is a schema ID of the graph, and a head is
\* what it was before the step, or the hash of its name (initializeSchema), or
\* the schema ID that an upgradeSchemaByName call on its name has just
\* returned; so every head is its name's root or came from such a call.
C25_HeadsValid ==
    [][\A n \in DOMAIN headSchemas' :
          /\ HasNode(graph', headSchemas'[n])
          /\ \/ n \in DOMAIN headSchemas /\ headSchemas'[n] = headSchemas[n]
             \/ headSchemas'[n] = MD5hex(n)
             \/ /\ last'.op = "upgradeSchemaByName" /\ ~last'.threw
                /\ last'.name = n /\ last'.id = headSchemas'[n]]_vars

\* upgradeSchemaByName moved Project's head to its first version while Task's
\* head stayed at Task's root.
C25_Witness ==
    /\ last.op = "upgradeSchemaByName" /\ ~last.threw /\ last.name = Project
    /\ headSchemas[Project] = ProjectV1 /\ last.id = ProjectV1
    /\ Task \in DOMAIN headSchemas /\ headSchemas[Task] = MD5hex(Task)

\* C26: an initializeSchema(name) step on a name whose root the graph holds
\* under the sentinel, and an upgrade step with a lens on a predecessor that
\* the graph already joins to the hash of the two, return that schema ID
\* again and leave the schema IDs and the edges of the graph as they are; a
\* call that repeats the call before it returns what that call returned.
C26_RegistrationIdempotent ==
    [][/\ (last'.op = "initializeSchema" /\ HasEdge(graph, Mu, MD5hex(last'.name))) =>
             /\ ~last'.threw /\ last'.id = MD5hex(last'.name)
             /\ graph' = graph
       /\ (/\ last'.op \in Upgrades
           /\ HasNode(graph, last'.from)
           /\ HasEdge(graph, last'.from, NewSchemaId(last'.from, last'.lens))) =>
             /\ ~last'.threw /\ last'.id = NewSchemaId(last'.from, last'.lens)
             /\ graph' = graph
       /\ (/\ last'.op \in {"initializeSchema", "upgradeSchemaById"}
           /\ last.op = last'.op /\ ~last.threw
           /\ last.name = last'.name /\ last.lens = last'.lens
           /\ last.from = last'.from) =>
             /\ ~last'.threw /\ last'.id = last.id
             /\ graph' = graph]_vars

\* The divergent branches of the tests: Project initialized again and
\* projectV1Lens registered again reached V1, which already had the branch1
\* successor, and branch2Lens registered next made a second successor of V1.
C26_Witness ==
    /\ last.op = "upgradeSchemaByName" /\ ~last.threw
    /\ last.lens = branch2Lens /\ last.from = ProjectV1 /\ last.id = BranchB
    /\ HasEdge(graph, ProjectV1, BranchA) /\ HasEdge(graph, ProjectV1, BranchB)
    /\ EdgeLens(graph, ProjectV1, BranchA) = branch1Lens
    /\ ~HasEdge(graph, BranchA, BranchB)
    /\ Cardinality({i \in 1..Len(graph.edges) : graph.edges[i].v = Mu}) = 1

\* The schema IDs on the way from v to `to` along the predecessors.
RECURSIVE PathAlong(_, _, _)
PathAlong(pred, v, to) ==
    IF v = to THEN <<to>> ELSE <<v>> \o PathAlong(pred, pred[v], to)

\* The path lensFromTo(g, from, to) resolves, as schema IDs.
PathFromTo(g, from, to) == PathAlong(Dijkstra(g, to), from, to)

\* The lenses of the edges of a path, one after the other.
PathLens(g, path) ==
    Flatten([i \in 1..(Len(path) - 1) |-> EdgeLens(g, path[i], path[i + 1])])

\* The least number of edges from the schema IDs S to b, S being n edges away
\* from where the count began.
RECURSIVE DistFrom(_, _, _, _)
DistFrom(g, S, b, n) ==
    IF b \in S THEN n
    ELSE DistFrom(g, S \cup {e.w : e \in {f \in Range(g.edges) : f.v \in S}}, b, n + 1)

\* The path runs over the edge between b and c, in one direction or the other.
OverEdge(path, b, c) ==
    \E i \in 1..(Len(path) - 1) :
        {path[i], path[i + 1]} = {b, c} /\ path[i] # path[i + 1]

\* The patch of entry as the schema T sees it in the graph g, converted along
\* the path given.
ConvertedAlong(g, entry, path) ==
    applyLensToPatch(PathLens(g, path), entry.patch,
                     lensGraphSchema(g, entry.schemaId))

\* The entries of a log folded for T, each converted along the path that
\* lensFromTo resolves for it.
RECURSIVE FoldAlongPaths(_, _, _, _)
FoldAlongPaths(g, T, acc, patches) ==
    IF patches = <<>> THEN acc
    ELSE LET conv == ConvertedAlong(g, Head(patches),
                                    PathFromTo(g, Head(patches).schemaId, T))
             next == IF ~acc.ok THEN acc
                     ELSE IF ~conv.ok THEN [ok |-> FALSE, doc |-> acc.doc]
                     ELSE applyPatch(acc.doc, conv.patch)
         IN FoldAlongPaths(g, T, next, Tail(patches))

\* C27: whenever the graph or the document changes, readAs under a schema T
\* of the graph converts each entry along a path from its writer's schema to
\* T that has the least number of edges; and a connectExistingSchemas(lens,
\* B, C) step that adds an edge leaves alone, for reads under C, the
\* converted patch of every entry whose path to C does not run over the new
\* edge, and the whole result when no entry's path does.
C27_ShortestPathConversion ==
    [][(graph' # graph \/ doc' # doc) =>
          /\ doc'.hasPatches =>
                \A T \in Nodes(graph') :
                    /\ \A k \in 1..Len(doc'.patches) :
                          LET from == doc'.patches[k].schemaId
                          IN Len(PathFromTo(graph', from, T)) - 1
                                = DistFrom(graph', {from}, T, 0)
                    /\ readAs(graph', doc', T)
                          = FoldAlongPaths(graph', T, [ok |-> TRUE, doc |-> EmptyObj],
                                           <<InitPatch(T)>> \o doc'.patches)
          /\ (last'.op = "connectExistingSchemas" /\ graph' # graph /\ doc.hasPatches) =>
                LET B == last'.from
                    C == last'.to
                    Kept == {k \in 1..Len(doc.patches) :
                               ~OverEdge(PathFromTo(graph', doc.patches[k].schemaId, C), B, C)}
                IN /\ \A k \in Kept :
                         ConvertedAlong(graph', doc.patches[k],
                                        PathFromTo(graph', doc.patches[k].schemaId, C))
                           = ConvertedAlong(graph, doc.patches[k],
                                            PathFromTo(graph, doc.patches[k].schemaId, C))
                   /\ Kept = 1..Len(doc.patches) =>
                         readAs(graph', doc, C) = readAs(graph, doc, C)]_vars

\* The bridging lens of the tests joined BranchB to Combined: the document's
\* first entry, written under V1, still reaches Combined over BranchA, while
\* the BranchB entry now reaches it over the new edge.
C27_Witness ==
    /\ last.op = "connectExistingSchemas" /\ ~last.threw
    /\ last.from = BranchB /\ last.to = Combined
    /\ doc.hasPatches /\ Len(doc.patches) = 3
    /\ doc.patches[1].schemaId = ProjectV1
    /\ doc.patches[3].schemaId = BranchB
    /\ PathFromTo(graph, ProjectV1, Combined) = <<ProjectV1, BranchA, Combined>>
    /\ PathFromTo(graph, BranchB, Combined) = <<BranchB, Combined>>

\* C28: a readAs step of the store under a schema ID that is not in the graph
\* throws, whatever the document, also one with an empty log; a readAs step
\* of CambriaLocalStorage on a document with an empty log returns the empty
\* object under every schema ID, in the graph or not.
C28_UnknownTargetEmptyLog ==
    [][/\ (last'.op = "readAs" /\ ~HasNode(graph, last'.to)) => last'.threw
       /\ (last'.op = "localStorage.readAs" /\ doc = EmptyLogDoc) =>
             ~last'.threw /\ last'.val = EmptyObj]_vars

\* A document with an empty log read through CambriaLocalStorage under a
\* schema ID the graph does not hold: {} comes back, where the store throws.
C28_Witness ==
    /\ last.op = "localStorage.readAs" /\ ~last.threw /\ last.val = EmptyObj
    /\ last.to = UnknownId /\ ~HasNode(graph, UnknownId)
    /\ doc = EmptyLogDoc
    /\ ~readAs(graph, doc, UnknownId).ok
    /\ HasNode(graph, ProjectV1) /\ readAs(graph, doc, ProjectV1).ok

====
